---- MODULE Spec2Model ----
(***************************************************************************)
(* Training-job queue and lifecycle coordinator of bound-fastapi           *)
(* (app/services/job_queue.py with the RunPod client and the job routes).  *)
(*                                                                         *)
(* The store holds committed rows.  Every request handler and the poll     *)
(* loop works on its own session: ORM objects are snapshots taken when the *)
(* row was selected, and a commit writes only the attributes whose value   *)
(* differs from the snapshot.  Every await of a handler is a point where   *)
(* the other tasks may run, so each action below is one stretch of code    *)
(* between two awaits that touch the store or the remote provider.         *)
(*                                                                         *)
(* Encoding of Python values: None is Null (-1); the falsy values 0, 0.0   *)
(* and "" are 0; every truthy number or string is a positive integer.      *)
(***************************************************************************)
EXTENDS Integers, Sequences, FiniteSets, TLC

Null == -1
Absent == -2

\* Bounds of the model
MaxCreateCalls == 2
MaxCancelCalls == 1

Users == {1, 2}
DatasetIds == {1, 2, 3}
EpochChoices == {3}

Truthy(v) == v > 0

\* JobStatus
QUEUED == "queued"
PREPARING == "preparing"
TRAINING == "training"
COMPLETED == "completed"
FAILED == "failed"
CANCELLED == "cancelled"

TerminalStatuses == {COMPLETED, FAILED, CANCELLED}
ActiveStatuses == {QUEUED, PREPARING, TRAINING}

\* DatasetStatus
DS_PENDING == "pending"
DS_PROCESSING == "processing"
DS_READY == "ready"
DS_FAILED == "failed"

\* RunPodJobStatus
RP_IN_QUEUE == "IN_QUEUE"
RP_IN_PROGRESS == "IN_PROGRESS"
RP_COMPLETED == "COMPLETED"
RP_FAILED == "FAILED"
RP_CANCELLED == "CANCELLED"
RP_TIMED_OUT == "TIMED_OUT"

RunPodJobStatus ==
    {RP_IN_QUEUE, RP_IN_PROGRESS, RP_COMPLETED, RP_FAILED, RP_CANCELLED, RP_TIMED_OUT}

VARIABLES
    jobs,            \* tts_training_jobs: sequence of committed rows, index = id = creation order
    models,          \* tts_models: sequence of committed rows, index = id
    datasets,        \* tts_datasets: DatasetIds -> row
    creates,         \* create_training_job calls
    cancels,         \* cancel_training_job calls
    poll,            \* the polling task
    remote_submits,  \* number of POST /run requests sent
    remote_cancels,  \* RunPod ids for which POST /cancel was sent
    clock,           \* datetime.utcnow(), strictly increasing
    rec,             \* repeated reconciliation of one job with one remote result
    auth,            \* refresh_tokens table, the client's cookie, the last response
    tts              \* dataset routes: background tasks, the last response

vars ==
    <<jobs, models, datasets, creates, cancels, poll, remote_submits, remote_cancels, clock,
      rec, auth, tts>>

JobIds == 1..Len(jobs)

\* TTSTrainingJob(...) as constructed by create_training_job; the columns
\* not passed take their nullable defaults.
NewJob(user_id, dataset_id, epochs, queue_position) ==
    [user_id |-> user_id, dataset_id |-> dataset_id, status |-> QUEUED,
     runpod_job_id |-> Null, queue_position |-> queue_position, epochs |-> epochs,
     current_epoch |-> Null, current_step |-> Null, total_steps |-> Null, loss |-> Null,
     model_id |-> Null, error_message |-> Null,
     started_at |-> Null, completed_at |-> Null]

\* Session.commit(): UPDATE ... SET only the attributes the handler changed
\* with respect to the object it loaded; the other columns keep what the
\* store holds now.
Flush(row, loaded, changed) ==
    [f \in DOMAIN row |-> IF changed[f] # loaded[f] THEN changed[f] ELSE row[f]]

\* ------------------------------------------------------------------------
\* Remote Job Client (app/services/runpod_service.py)

\* The "output" of a status response: a dict, modelled as a record over the
\* keys the coordinator reads, Absent marking a key that is not in the dict.
\* None and {} are both the record with every key Absent.
OutputKeys ==
    {"current_epoch", "current_step", "total_steps", "loss", "model_s3_key", "final_loss"}

NoOutput == [k \in OutputKeys |-> Absent]

\* `if runpod_result.output:`
OutputTruthy(o) == \E k \in OutputKeys : o[k] # Absent

\* `"key" in output`
HasKey(o, k) == o[k] # Absent

\* output.get(key)
Get(o, k) == IF o[k] = Absent THEN Null ELSE o[k]

\* RunPodJobResult(job_id=..., status=..., output=..., error=...)
RunPodJobResult(job_id, status, output, error) ==
    [job_id |-> job_id, status |-> status, output |-> output, error |-> error]

\* submit_training_job: the id of the provider's response on success; on an
\* HTTP error status or an exception, status FAILED with job_id "" and the
\* error text, which is str(e) for an exception and so may be the empty
\* string.
SubmitResults(fresh_id) ==
    {RunPodJobResult(fresh_id, RP_IN_QUEUE, NoOutput, Null)}
        \cup {RunPodJobResult(0, RP_FAILED, NoOutput, e) : e \in {0, 1}}

\* get_job_status when the query itself fails: an HTTP error status gives
\* FAILED with the text "Failed to get status: <code>", an exception gives
\* FAILED with str(e), which may be the empty string; no output either way.
QueryFailedResults(job_id) ==
    {RunPodJobResult(job_id, RP_FAILED, NoOutput, e) : e \in {0, 1}}

\* get_job_status: the provider's status and output; error is taken from the
\* response only when the status is FAILED.  A failed query is reported as
\* FAILED as well.
StatusResults(job_id, outputs) ==
    {RunPodJobResult(job_id, s, o, Null) :
        s \in RunPodJobStatus \ {RP_FAILED}, o \in outputs}
        \cup {RunPodJobResult(job_id, RP_FAILED, o, e) : o \in outputs, e \in {Null, 0, 1}}
        \cup QueryFailedResults(job_id)

\* ------------------------------------------------------------------------
\* Queue Coordinator (app/services/job_queue.py)

JOB_FAILED == 2     \* the text "Job failed"

\* `a or b`
OrFirst(a, b) == a

Or(a, b) == IF Truthy(a) THEN a ELSE b

\* TTSModel(...) as constructed by _update_job_from_runpod
NewModel(job_id, job, output) ==
    [user_id |-> job.user_id, training_job_id |-> job_id,
     model_s3_key |-> Get(output, "model_s3_key"),
     training_epochs |-> job.epochs,
     final_loss |-> Or(Get(output, "final_loss"), job.loss)]

\* The progress branch of _update_job_from_runpod: only the keys present in
\* the output are written.
UpdateProgressAllKeys(job, output) ==
    [job EXCEPT !.current_epoch = Get(output, "current_epoch"),
                !.current_step = Get(output, "current_step"),
                !.total_steps = Get(output, "total_steps"),
                !.loss = Get(output, "loss")]

UpdateProgress(job, output) ==
    IF OutputTruthy(output)
    THEN [job EXCEPT
            !.current_epoch = IF HasKey(output, "current_epoch")
                              THEN output.current_epoch ELSE @,
            !.current_step = IF HasKey(output, "current_step")
                             THEN output.current_step ELSE @,
            !.total_steps = IF HasKey(output, "total_steps")
                            THEN output.total_steps ELSE @,
            !.loss = IF HasKey(output, "loss") THEN output.loss ELSE @]
    ELSE job

\* Whether the COMPLETED branch creates a TTSModel
CreatesModel(r) ==
    /\ r.status = RP_COMPLETED
    /\ OutputTruthy(r.output)
    /\ Truthy(Get(r.output, "model_s3_key"))

\* _update_job_from_runpod, on the in-memory job: the job object after the
\* call.  now is datetime.utcnow(), new_model_id the id of the TTSModel the
\* COMPLETED branch adds (when it adds one).
UpdateJobFromRunpodRestarts(job, r, now, new_model_id) ==
    CASE r.status = RP_IN_PROGRESS ->
            UpdateProgress(
                [job EXCEPT !.status = TRAINING, !.started_at = now,
                            !.queue_position = Null],
                r.output)
      [] r.status = RP_COMPLETED ->
            [job EXCEPT !.status = COMPLETED, !.completed_at = now,
                        !.queue_position = Null,
                        !.model_id = IF CreatesModel(r) THEN new_model_id ELSE @]
      [] r.status \in {RP_FAILED, RP_TIMED_OUT} ->
            [job EXCEPT !.status = FAILED,
                        !.error_message = Or(r.error, JOB_FAILED),
                        !.completed_at = now, !.queue_position = Null]
      [] r.status = RP_CANCELLED ->
            [job EXCEPT !.status = CANCELLED, !.completed_at = now,
                        !.queue_position = Null]
      [] OTHER -> job

UpdateJobFromRunpod(job, r, now, new_model_id) ==
    CASE r.status = RP_IN_PROGRESS ->
            UpdateProgress(
                IF job.status # TRAINING
                THEN [job EXCEPT !.status = TRAINING, !.started_at = now,
                                 !.queue_position = Null]
                ELSE job,
                r.output)
      [] r.status = RP_COMPLETED ->
            [job EXCEPT !.status = COMPLETED, !.completed_at = now,
                        !.queue_position = Null,
                        !.model_id = IF CreatesModel(r) THEN new_model_id ELSE @]
      [] r.status \in {RP_FAILED, RP_TIMED_OUT} ->
            [job EXCEPT !.status = FAILED,
                        !.error_message = Or(r.error, JOB_FAILED),
                        !.completed_at = now, !.queue_position = Null]
      [] r.status = RP_CANCELLED ->
            [job EXCEPT !.status = CANCELLED, !.completed_at = now,
                        !.queue_position = Null]
      [] OTHER -> job

\* The rows db.add(model) adds in _update_job_from_runpod
ModelsAdded(job_id, job, r) ==
    IF CreatesModel(r) THEN <<NewModel(job_id, job, r.output)>> ELSE << >>

\* ------------------------------------------------------------------------
\* Tokens and hashes (app/core/security.py), users and refresh tokens
\* (app/models/user.py, app/models/refresh_token.py)

\* Bounds of the auth model
MaxRequests == 4
MaxTime == 1

Emails == {1, 2}
Passwords == {1, 2}

\* get_password_hash: bcrypt of the text under a salt; two hashes are equal
\* exactly when text and salt are
GetPasswordHash(password, salt) == [text |-> password, salt |-> salt]

\* verify_password: bcrypt.checkpw hashes the plain text under the salt of
\* the stored hash and compares
VerifyPassword(plain_password, hashed_password) ==
    GetPasswordHash(plain_password, hashed_password.salt) = hashed_password

\* generate_token_hash
GenerateTokenHash(token, salt) == GetPasswordHash(token, salt)

\* A token_hash column that holds the token itself (a legacy row)
RawToken(token) == [text |-> token, salt |-> 0]

\* create_access_token / create_refresh_token: a JWT over sub, exp and type;
\* exp has a resolution of one second, now is the second of the call
CreateAccessToken(sub, now) == [sub |-> sub, exp |-> now, type |-> "access"]

CreateRefreshToken(sub, now) == [sub |-> sub, exp |-> now, type |-> "refresh"]

NoToken == [sub |-> Null, exp |-> Null, type |-> "none"]

\* RefreshToken(user_id=..., token_hash=..., expires_at=...); revoked
\* defaults to False.  expires_at is seven days after the call and is not
\* reached within MaxTime.
RefreshToken(user_id, token_hash) ==
    [user_id |-> user_id, token_hash |-> token_hash, revoked |-> FALSE]

\* The users table: user 1 is verified, user 2 has registered and is not
\* verified yet; both have password 1, hashed under the salts 1 and 2.  A
\* user's id is its email here.
AuthUsers ==
    [e \in Emails |->
        [hashed_password |-> GetPasswordHash(1, e), is_active |-> TRUE,
         is_verified |-> (e = 1)]]

NoResponse == [op |-> "none", status_code |-> 0, access_token |-> NoToken]

\* salts counts the salts bcrypt.gensalt() has returned: 16 random bytes
\* each, so that no two calls return the same salt.  cookie and access are
\* the refresh-token cookie and the bearer token the client holds, presented
\* is the refresh token of the last refresh request, logged_out the users
\* that have logged out and not logged in since.
InitialAuth ==
    [refresh_tokens |-> << >>, cookie |-> NoToken, access |-> NoToken,
     presented |-> NoToken, logged_out |-> {}, now |-> 0, requests |-> 0,
     salts |-> Cardinality(Emails), last |-> NoResponse]

\* A refresh token issued to user 1 before the first second of the model
LegacyToken == CreateRefreshToken(1, 0 - 1)

\* A store that holds a row written when token_hash held the token itself
\* (the "legacy raw tokens" of refresh_token), and the client's cookie
LegacyAuth ==
    [InitialAuth EXCEPT
        !.refresh_tokens = <<RefreshToken(1, RawToken(LegacyToken))>>,
        !.cookie = LegacyToken]

\* bcrypt.gensalt(), for the n-th salt drawn in a request
GenSalt(n) == auth.salts + n

\* Result texts of the service calls: the ValueError messages, or "ok"
R_NONE == "none"
R_OK == "ok"
R_DATASET_NOT_FOUND == "Dataset not found"
R_DATASET_NOT_READY == "Dataset is not ready for training"
R_DATASET_NO_DATA == "Dataset has no training data"
R_SUBMIT_FAILED == "Failed to submit job to RunPod"
R_JOB_NOT_FOUND == "Job not found"
R_CANNOT_CANCEL == "Cannot cancel job"

CreateCalls == 1..MaxCreateCalls
CancelCalls == 1..MaxCancelCalls

\* Dataset ids a create request may name: the datasets of the store and one
\* id that no dataset has
RequestDatasetIds == DatasetIds \cup {4}

\* Job ids a cancel request may name: every id a create call can produce
RequestJobIds == 1..MaxCreateCalls

\* runpod_status and runpod_job_id are the status and the job_id of the
\* RunPodJobResult the submission returned
IdleCreate ==
    [pc |-> "idle", user_id |-> Null, dataset_id |-> Null, epochs |-> Null,
     queue_position |-> Null, job |-> Null,
     runpod_status |-> R_NONE, runpod_job_id |-> Null, result |-> R_NONE]

\* remote is "sent" once the cancel request to the provider was sent, then
\* "ok" or "failed" as cancel_job returned True or False
IdleCancel ==
    [pc |-> "idle", user_id |-> Null, job_id |-> Null, remote |-> "none", result |-> R_NONE]

\* tasks counts the polling tasks that were created and have not ended;
\* raised tells whether the running tick has logged an error for a job
IdlePoll == [pc |-> "none", todo |-> << >>, queued |-> << >>, tasks |-> 0, raised |-> FALSE]

NoRec == [n |-> 0, r |-> RunPodJobResult(Null, RP_IN_QUEUE, NoOutput, Null),
          obj |-> NewJob(Null, Null, Null, Null),
          first |-> [jobs |-> << >>, models |-> << >>]]

\* The datasets of the store: one that is READY, one that is not processed
\* yet, and one of another user that is READY but has no training data.
\* No dataset request yet, no background task added
NoTtsResponse == [op |-> "none", user_id |-> Null, dataset_id |-> Null, status_code |-> 0]

InitialTts == [tasks |-> << >>, requests |-> 0, last |-> NoTtsResponse]

InitDatasets ==
    [d \in DatasetIds |->
        CASE d = 1 -> [user_id |-> 1, status |-> DS_READY, training_data_s3_key |-> 1,
                       error_message |-> Null]
          [] d = 2 -> [user_id |-> 1, status |-> DS_PENDING, training_data_s3_key |-> Null,
                       error_message |-> Null]
          [] OTHER -> [user_id |-> 2, status |-> DS_READY, training_data_s3_key |-> Null,
                       error_message |-> Null]]

Init ==
    /\ jobs = << >>
    /\ models = << >>
    /\ datasets = InitDatasets
    /\ creates = [c \in CreateCalls |-> IdleCreate]
    /\ cancels = [k \in CancelCalls |-> IdleCancel]
    /\ poll = IdlePoll
    /\ remote_submits = 0
    /\ remote_cancels = {}
    /\ clock = 1
    /\ rec = NoRec
    /\ auth = InitialAuth
    /\ tts = InitialTts

\* ---- create_training_job ------------------------------------------------

\* select(TTSDataset).where(id == dataset_id, user_id == user_id) and the
\* three checks on the row
DatasetErrorNoDataCheck(user_id, dataset_id) ==
    IF dataset_id \notin DOMAIN datasets THEN R_DATASET_NOT_FOUND
    ELSE IF datasets[dataset_id].user_id # user_id THEN R_DATASET_NOT_FOUND
    ELSE IF datasets[dataset_id].status # DS_READY THEN R_DATASET_NOT_READY
    ELSE R_OK

DatasetError(user_id, dataset_id) ==
    IF dataset_id \notin DOMAIN datasets THEN R_DATASET_NOT_FOUND
    ELSE IF datasets[dataset_id].user_id # user_id THEN R_DATASET_NOT_FOUND
    ELSE IF datasets[dataset_id].status # DS_READY THEN R_DATASET_NOT_READY
    ELSE IF ~Truthy(datasets[dataset_id].training_data_s3_key) THEN R_DATASET_NO_DATA
    ELSE R_OK

\* Calls are numbered in the order in which they arrive
CreateValidate(c, user_id, dataset_id, epochs) ==
    /\ creates[c].pc = "idle"
    /\ \A b \in 1..(c - 1) : creates[b].pc # "idle"
    /\ LET err == DatasetError(user_id, dataset_id) IN
       creates' = [creates EXCEPT ![c] =
            [@ EXCEPT !.user_id = user_id, !.dataset_id = dataset_id, !.epochs = epochs,
                      !.pc = IF err = R_OK THEN "count" ELSE "done",
                      !.result = IF err = R_OK THEN R_NONE ELSE err]]
    /\ UNCHANGED <<jobs, models, datasets, cancels, poll, remote_submits, remote_cancels, clock, rec, auth, tts>>

\* The statuses create_training_job counts for the new queue position
CountedStatuses == {QUEUED, PREPARING}

\* len(queued_jobs) + 1
NextQueuePosition ==
    Cardinality({j \in JobIds : jobs[j].status \in CountedStatuses}) + 1

CreateCount(c) ==
    /\ creates[c].pc = "count"
    /\ creates' = [creates EXCEPT ![c].queue_position = NextQueuePosition,
                                  ![c].pc = "insert"]
    /\ UNCHANGED <<jobs, models, datasets, cancels, poll, remote_submits, remote_cancels, clock, rec, auth, tts>>

\* db.add(job); commit; refresh; then the POST to the provider is sent
CreateInsert(c) ==
    /\ creates[c].pc = "insert"
    /\ jobs' = Append(jobs, NewJob(creates[c].user_id, creates[c].dataset_id,
                                   creates[c].epochs, creates[c].queue_position))
    /\ creates' = [creates EXCEPT ![c].job = Len(jobs) + 1, ![c].pc = "submit"]
    /\ remote_submits' = remote_submits + 1
    /\ UNCHANGED <<models, datasets, cancels, poll, remote_cancels, clock, rec, auth, tts>>

\* The job object of create_training_job after the submission returned
AfterSubmitKeepsQueued(job, r) ==
    IF Truthy(r.error)
    THEN [job EXCEPT !.status = FAILED, !.error_message = r.error]
    ELSE [job EXCEPT !.runpod_job_id = r.job_id]

AfterSubmit(job, r) ==
    IF Truthy(r.error)
    THEN [job EXCEPT !.status = FAILED, !.error_message = r.error]
    ELSE [job EXCEPT !.runpod_job_id = r.job_id, !.status = PREPARING]

\* The submission returns; the job is marked FAILED or PREPARING; commit
CreateFinishRetries(c, r) ==
    /\ creates[c].pc = "submit"
    /\ LET j == creates[c].job
           loaded == NewJob(creates[c].user_id, creates[c].dataset_id,
                            creates[c].epochs, creates[c].queue_position)
       IN jobs' = [jobs EXCEPT ![j] = Flush(@, loaded, AfterSubmit(loaded, r))]
    /\ creates' = [creates EXCEPT ![c].pc = "done",
                        ![c].runpod_status = r.status,
                        ![c].runpod_job_id = r.job_id,
                        ![c].result = IF Truthy(r.error) THEN R_SUBMIT_FAILED ELSE R_OK]
    /\ remote_submits' = IF Truthy(r.error) THEN remote_submits + 1 ELSE remote_submits
    /\ UNCHANGED <<models, datasets, cancels, poll, remote_cancels, clock, rec, auth, tts>>

CreateFinish(c, r) ==
    /\ creates[c].pc = "submit"
    /\ LET j == creates[c].job
           loaded == NewJob(creates[c].user_id, creates[c].dataset_id,
                            creates[c].epochs, creates[c].queue_position)
       IN jobs' = [jobs EXCEPT ![j] = Flush(@, loaded, AfterSubmit(loaded, r))]
    /\ creates' = [creates EXCEPT ![c].pc = "done",
                        ![c].runpod_status = r.status,
                        ![c].runpod_job_id = r.job_id,
                        ![c].result = IF Truthy(r.error) THEN R_SUBMIT_FAILED ELSE R_OK]
    /\ UNCHANGED <<models, datasets, cancels, poll, remote_submits, remote_cancels, clock, rec, auth, tts>>

\* ---- cancel_training_job ------------------------------------------------

\* `job.status in [COMPLETED, FAILED, CANCELLED]`
NotCancellableMutant(status) == status \in {COMPLETED, FAILED}

NotCancellable(status) == status \in {COMPLETED, FAILED, CANCELLED}

\* select(TTSTrainingJob).where(id == job_id, user_id == user_id)
JobFound(user_id, job_id) == job_id \in JobIds /\ jobs[job_id].user_id = user_id

\* The select, the two checks, and the cancel request to the provider
CancelLoad(k, user_id, job_id) ==
    /\ cancels[k].pc = "idle"
    /\ \A b \in 1..(k - 1) : cancels[b].pc # "idle"
    /\ IF ~JobFound(user_id, job_id)
       THEN /\ cancels' = [cancels EXCEPT ![k] =
                    [pc |-> "done", user_id |-> user_id, job_id |-> job_id,
                     remote |-> "none", result |-> R_JOB_NOT_FOUND]]
            /\ UNCHANGED remote_cancels
       ELSE IF NotCancellable(jobs[job_id].status)
       THEN /\ cancels' = [cancels EXCEPT ![k] =
                    [pc |-> "done", user_id |-> user_id, job_id |-> job_id,
                     remote |-> "none", result |-> R_CANNOT_CANCEL]]
            /\ UNCHANGED remote_cancels
       ELSE /\ cancels' = [cancels EXCEPT ![k] =
                    [pc |-> "commit", user_id |-> user_id, job_id |-> job_id,
                     remote |-> IF Truthy(jobs[job_id].runpod_job_id) THEN "sent" ELSE "none",
                     result |-> R_NONE]]
            /\ remote_cancels' =
                    IF Truthy(jobs[job_id].runpod_job_id)
                    THEN remote_cancels \cup {jobs[job_id].runpod_job_id}
                    ELSE remote_cancels
    /\ UNCHANGED <<jobs, models, datasets, creates, poll, remote_submits, clock, rec, auth, tts>>

\* What cancel_training_job sets on the job it loaded
Cancelled(job, now) == [job EXCEPT !.status = CANCELLED, !.completed_at = now]

\* cancel_job returned ok (True) or not (False: HTTP error status or
\* exception); the answer is ignored; status and completed_at are written
CancelCommitBlocked(k, ok) ==
    /\ cancels[k].pc = "commit"
    /\ LET sent == cancels[k].remote = "sent" IN
       IF sent /\ ~ok
       THEN /\ cancels' = [cancels EXCEPT ![k].pc = "done", ![k].remote = "failed",
                                          ![k].result = R_CANNOT_CANCEL]
            /\ UNCHANGED <<jobs, clock>>
       ELSE /\ jobs' = [jobs EXCEPT ![cancels[k].job_id] = Cancelled(@, clock)]
            /\ clock' = clock + 1
            /\ cancels' = [cancels EXCEPT ![k].pc = "done", ![k].result = R_OK,
                                ![k].remote = IF sent THEN "ok" ELSE "none"]
    /\ UNCHANGED <<models, datasets, creates, poll, remote_submits, remote_cancels, rec, auth, tts>>

CancelCommit(k, ok) ==
    /\ cancels[k].pc = "commit"
    /\ jobs' = [jobs EXCEPT ![cancels[k].job_id] = Cancelled(@, clock)]
    /\ clock' = clock + 1
    /\ cancels' = [cancels EXCEPT ![k].pc = "done", ![k].result = R_OK,
                        ![k].remote = IF cancels[k].remote = "sent"
                                      THEN (IF ok THEN "ok" ELSE "failed")
                                      ELSE "none"]
    /\ UNCHANGED <<models, datasets, creates, poll, remote_submits, remote_cancels, rec, auth, tts>>

\* ---- _poll_active_jobs and _polling_loop --------------------------------

\* The outputs the provider reports to the poll loop in this model
ModelOutput == [NoOutput EXCEPT !.model_s3_key = 1, !.final_loss = 1]

PollOutputs == {NoOutput, ModelOutput}

\* The WHERE clause of the poll tick's first select
PollActiveAnyStatus(row) == row.runpod_job_id # Null

PollActiveNoHandle(row) == row.status \in ActiveStatuses

PollActive(row) == row.status \in ActiveStatuses /\ row.runpod_job_id # Null

\* The ids of the rows that satisfy Test, in creation order
SelectIds(Test(_)) == SelectSeq([i \in 1..Len(jobs) |-> i], Test)

\* Whether _update_job_from_runpod reads datetime.utcnow()
ReadsClock(job, r) ==
    \/ r.status \in {RP_COMPLETED, RP_FAILED, RP_TIMED_OUT, RP_CANCELLED}
    \/ r.status = RP_IN_PROGRESS /\ job.status # TRAINING

\* The first select of a tick: the objects of the active jobs
PollLoad ==
    /\ poll.pc = "load"
    /\ LET ids == SelectIds(LAMBDA i : PollActive(jobs[i])) IN
       poll' = [poll EXCEPT !.pc = "jobs", !.raised = FALSE,
                    !.todo = [n \in 1..Len(ids) |-> [id |-> ids[n], obj |-> jobs[ids[n]]]]]
    /\ UNCHANGED <<jobs, models, datasets, creates, cancels, remote_submits, remote_cancels, clock, rec, auth, tts>>

\* One iteration of the loop over the jobs: get_job_status returns r, then
\* _update_job_from_runpod changes the loaded object and commits.
PollJob(r) ==
    /\ poll.pc = "jobs"
    /\ poll.todo # << >>
    /\ LET id == Head(poll.todo).id
           obj == Head(poll.todo).obj
       IN /\ r \in StatusResults(obj.runpod_job_id, PollOutputs)
          /\ jobs' = [jobs EXCEPT ![id] =
                        Flush(@, obj, UpdateJobFromRunpod(obj, r, clock, Len(models) + 1))]
          /\ models' = models \o ModelsAdded(id, obj, r)
          /\ clock' = IF ReadsClock(obj, r) THEN clock + 1 ELSE clock
    /\ poll' = [poll EXCEPT !.todo = Tail(@)]
    /\ UNCHANGED <<datasets, creates, cancels, remote_submits, remote_cancels, rec, auth, tts>>

\* One iteration of the loop over the jobs in which get_job_status or
\* _update_job_from_runpod raises before anything is committed: the
\* `except Exception` of the iteration logs the error and the loop goes on
\* with the next job.
PollJobRaisesAbortsTick ==
    /\ poll.pc = "jobs"
    /\ poll.todo # << >>
    /\ poll' = [poll EXCEPT !.pc = "load", !.todo = << >>, !.raised = TRUE]
    /\ UNCHANGED <<jobs, models, datasets, creates, cancels, remote_submits, remote_cancels, clock, rec, auth, tts>>

PollJobRaises ==
    /\ poll.pc = "jobs"
    /\ poll.todo # << >>
    /\ poll' = [poll EXCEPT !.todo = Tail(@), !.raised = TRUE]
    /\ UNCHANGED <<jobs, models, datasets, creates, cancels, remote_submits, remote_cancels, clock, rec, auth, tts>>

\* An exception outside the loop over the jobs (the selects, the commit of
\* the queue-position pass) leaves _poll_active_jobs; _polling_loop logs it,
\* sleeps and starts the next tick.
PollTickRaises ==
    /\ \/ poll.pc = "load"
       \/ poll.pc = "jobs" /\ poll.todo = << >>
       \/ poll.pc = "positions"
    /\ poll' = [poll EXCEPT !.pc = "load", !.todo = << >>, !.queued = << >>]
    /\ UNCHANGED <<jobs, models, datasets, creates, cancels, remote_submits, remote_cancels, clock, rec, auth, tts>>

\* select(TTSTrainingJob).where(status == QUEUED).order_by(created_at)
PollSelectQueued ==
    /\ poll.pc = "jobs"
    /\ poll.todo = << >>
    /\ LET ids == SelectIds(LAMBDA i : jobs[i].status = QUEUED) IN
       poll' = [poll EXCEPT !.pc = "positions",
                    !.queued = [n \in 1..Len(ids) |->
                                    [id |-> ids[n], queue_position |-> jobs[ids[n]].queue_position]]]
    /\ UNCHANGED <<jobs, models, datasets, creates, cancels, remote_submits, remote_cancels, clock, rec, auth, tts>>

\* for i, job in enumerate(queued_jobs, start=1)
EnumerateStart == 1

\* The queue-position pass over the selected jobs: the n-th selected job gets
\* position n when it holds another one
RenumberQueuedZeroBased(rows, queued) ==
    [j \in 1..Len(rows) |->
        IF \E n \in 1..Len(queued) : queued[n].id = j /\ queued[n].queue_position # n - 1
        THEN [rows[j] EXCEPT !.queue_position =
                (CHOOSE n \in 1..Len(queued) : queued[n].id = j) - 1]
        ELSE rows[j]]

RenumberQueued(rows, queued) ==
    [j \in 1..Len(rows) |->
        IF \E n \in 1..Len(queued) :
                queued[n].id = j /\ queued[n].queue_position # n + EnumerateStart - 1
        THEN [rows[j] EXCEPT !.queue_position =
                (CHOOSE n \in 1..Len(queued) : queued[n].id = j) + EnumerateStart - 1]
        ELSE rows[j]]

PollCommitPositions ==
    /\ poll.pc = "positions"
    /\ jobs' = RenumberQueued(jobs, poll.queued)
    /\ poll' = [poll EXCEPT !.pc = "load", !.queued = << >>]
    /\ UNCHANGED <<models, datasets, creates, cancels, remote_submits, remote_cancels, clock, rec, auth, tts>>

\* start_polling: a new task unless one exists that is not done
StartPollingUnchecked ==
    /\ poll' = [IdlePoll EXCEPT !.pc = "load", !.tasks = poll.tasks + 1]
    /\ UNCHANGED <<jobs, models, datasets, creates, cancels, remote_submits, remote_cancels, clock, rec, auth, tts>>

StartPolling ==
    /\ poll.pc \in {"none", "done"}
    /\ poll' = [IdlePoll EXCEPT !.pc = "load", !.tasks = poll.tasks + 1]
    /\ UNCHANGED <<jobs, models, datasets, creates, cancels, remote_submits, remote_cancels, clock, rec, auth, tts>>

\* stop_polling: _polling_task.cancel() when the task exists and is not done
StopPolling ==
    /\ poll.pc \notin {"none", "done", "cancelling"}
    /\ poll' = [IdlePoll EXCEPT !.pc = "cancelling", !.tasks = poll.tasks]
    /\ UNCHANGED <<jobs, models, datasets, creates, cancels, remote_submits, remote_cancels, clock, rec, auth, tts>>

\* The CancelledError is raised at the await the loop is suspended in; the
\* loop's `except Exception` does not catch it and the task ends.
PollCancelledSwallowed ==
    /\ poll.pc = "cancelling"
    /\ poll' = [poll EXCEPT !.pc = "load"]
    /\ UNCHANGED <<jobs, models, datasets, creates, cancels, remote_submits, remote_cancels, clock, rec, auth, tts>>

PollCancelled ==
    /\ poll.pc = "cancelling"
    /\ poll' = [poll EXCEPT !.pc = "done", !.tasks = @ - 1]
    /\ UNCHANGED <<jobs, models, datasets, creates, cancels, remote_submits, remote_cancels, clock, rec, auth, tts>>

Next ==
    \/ \E c \in CreateCalls, u \in Users, d \in RequestDatasetIds, e \in EpochChoices :
            CreateValidate(c, u, d, e)
    \/ \E c \in CreateCalls : CreateCount(c)
    \/ \E c \in CreateCalls : CreateInsert(c)
    \/ \E c \in CreateCalls : \E r \in SubmitResults(creates[c].job) : CreateFinish(c, r)
    \/ \E k \in CancelCalls, u \in Users, j \in RequestJobIds : CancelLoad(k, u, j)
    \/ \E k \in CancelCalls, ok \in BOOLEAN : CancelCommit(k, ok)
    \/ StartPolling
    \/ StopPolling
    \/ PollCancelled
    \/ PollLoad
    \/ \E s \in RunPodJobStatus, o \in PollOutputs, e \in {Null, 0, 1} :
            PollJob(RunPodJobResult(Head(poll.todo).obj.runpod_job_id, s, o, e))
    \/ PollJobRaises
    \/ PollTickRaises
    \/ PollSelectQueued
    \/ PollCommitPositions

Spec == Init /\ [][Next]_vars

\* The event loop resumes a task whose cancellation was requested
SpecLoopFair == Spec /\ WF_vars(PollCancelled)

\* ------------------------------------------------------------------------
\* _update_job_from_runpod on its own: one job of the store, loaded in one
\* session, reconciled repeatedly with one remote result.

MaxApplications == 2

\* The outputs a status response may carry
ReconcileOutputs ==
    {o \in [OutputKeys -> {Absent, 0, 1, 5, 7}] :
        /\ o.current_epoch \in {Absent, 1}
        /\ o.current_step \in {Absent, 5, 7}
        /\ o.total_steps \in {Absent, 7}
        /\ o.loss \in {Absent, 1}
        /\ o.model_s3_key \in {Absent, 0, 1}
        /\ o.final_loss \in {Absent, 0, 1}}

\* The non-terminal jobs with a remote handle that the poll loop can load: a
\* PREPARING job as create_training_job leaves it, and a TRAINING job with
\* some progress.
ReconcileJobs ==
    {[NewJob(1, 1, 3, q) EXCEPT !.status = PREPARING, !.runpod_job_id = 1] : q \in {1, 2}}
    \cup
    {[NewJob(1, 1, 3, Null) EXCEPT !.status = TRAINING, !.runpod_job_id = 1,
                                   !.started_at = 1, !.current_step = st, !.loss = l] :
        st \in {Null, 5}, l \in {Null, 0, 1}}

InitReconcile ==
    /\ \E job \in ReconcileJobs :
          /\ jobs = <<job>>
          /\ \E r \in StatusResults(job.runpod_job_id, ReconcileOutputs) :
                rec = [n |-> 0, r |-> r, obj |-> job,
                       first |-> [jobs |-> << >>, models |-> << >>]]
    /\ models = << >>
    /\ datasets = InitDatasets
    /\ creates = [c \in CreateCalls |-> IdleCreate]
    /\ cancels = [k \in CancelCalls |-> IdleCancel]
    /\ poll = IdlePoll
    /\ remote_submits = 1
    /\ remote_cancels = {}
    /\ clock = 2
    /\ auth = InitialAuth
    /\ tts = InitialTts

\* _update_job_from_runpod(db, job, runpod_result) with the session's job
\* object and the same result again
ReconcileApply ==
    /\ rec.n < MaxApplications
    /\ LET new == UpdateJobFromRunpod(rec.obj, rec.r, clock, Len(models) + 1)
           rows == [jobs EXCEPT ![1] = Flush(@, rec.obj, new)]
           mods == models \o ModelsAdded(1, rec.obj, rec.r)
       IN /\ jobs' = rows
          /\ models' = mods
          /\ rec' = [rec EXCEPT !.n = @ + 1, !.obj = new,
                        !.first = IF rec.n = 0 THEN [jobs |-> rows, models |-> mods] ELSE @]
    /\ clock' = IF ReadsClock(rec.obj, rec.r) THEN clock + 1 ELSE clock
    /\ UNCHANGED <<datasets, creates, cancels, poll, remote_submits, remote_cancels, auth, tts>>

NextReconcile == ReconcileApply

SpecReconcile == InitReconcile /\ [][NextReconcile]_vars

\* ------------------------------------------------------------------------
\* Login and refresh (app/api/routes/auth.py), requests of one client that
\* keeps the cookies it is sent

JobQueueUnchanged ==
    UNCHANGED <<jobs, models, datasets, creates, cancels, poll, remote_submits,
                remote_cancels, clock, rec, tts>>

Response(op, status_code, access_token) ==
    [op |-> op, status_code |-> status_code, access_token |-> access_token]

\* POST /auth/login
Login(email, password) ==
    /\ auth.requests < MaxRequests
    /\ IF email \notin DOMAIN AuthUsers
          \/ ~VerifyPassword(password, AuthUsers[email].hashed_password)
       THEN auth' = [auth EXCEPT !.requests = @ + 1, !.presented = NoToken,
                                 !.last = Response("login", 401, NoToken)]
       ELSE IF ~AuthUsers[email].is_active \/ ~AuthUsers[email].is_verified
       THEN auth' = [auth EXCEPT !.requests = @ + 1, !.presented = NoToken,
                                 !.last = Response("login", 403, NoToken)]
       ELSE LET refresh_token == CreateRefreshToken(email, auth.now) IN
            auth' = [auth EXCEPT
                !.requests = @ + 1,
                !.presented = NoToken,
                !.logged_out = @ \ {email},
                !.access = CreateAccessToken(email, auth.now),
                !.salts = @ + 1,
                !.refresh_tokens =
                    Append(@, RefreshToken(email,
                                           GenerateTokenHash(refresh_token, GenSalt(1)))),
                !.cookie = refresh_token,
                !.last = Response("login", 200, CreateAccessToken(email, auth.now))]
    /\ JobQueueUnchanged

\* The rows the select of refresh_token returns for the cookie's token
StoredTokensAlsoRevoked(rows, user_id, refresh_token, refresh_token_hash) ==
    {i \in 1..Len(rows) :
        /\ rows[i].user_id = user_id
        /\ \/ rows[i].token_hash = refresh_token_hash
           \/ rows[i].token_hash = RawToken(refresh_token)}

StoredTokens(rows, user_id, refresh_token, refresh_token_hash) ==
    {i \in 1..Len(rows) :
        /\ rows[i].user_id = user_id
        /\ ~rows[i].revoked
        /\ \/ rows[i].token_hash = refresh_token_hash
           \/ rows[i].token_hash = RawToken(refresh_token)}

\* The refresh tokens a request can carry: none, the cookie the client
\* holds, or a token the store has held (an old cookie sent again)
PresentableTokens ==
    {NoToken, auth.cookie}
        \cup {auth.refresh_tokens[i].token_hash.text : i \in 1..Len(auth.refresh_tokens)}

\* POST /auth/refresh with the cookie refresh_token (NoToken: no cookie).
\* The cookie, when there is one, holds a refresh token this service issued
\* for a user of the table, so the hash for the lookup is always computed.
\* scalar_one_or_none() raises when the select returns two rows.
Refresh(refresh_token) ==
    /\ auth.requests < MaxRequests
    /\ LET email == refresh_token.sub
           stored == StoredTokens(auth.refresh_tokens, email, refresh_token,
                                  GenerateTokenHash(refresh_token, GenSalt(1)))
       IN IF refresh_token = NoToken \/ refresh_token.type # "refresh"
             \/ email \notin DOMAIN AuthUsers
          THEN auth' = [auth EXCEPT !.requests = @ + 1, !.presented = refresh_token,
                                    !.last = Response("refresh", 401, NoToken)]
          ELSE IF stored = {}
          THEN auth' = [auth EXCEPT !.requests = @ + 1, !.presented = refresh_token,
                                    !.salts = @ + 1,
                                    !.last = Response("refresh", 401, NoToken)]
          ELSE IF Cardinality(stored) > 1
          THEN auth' = [auth EXCEPT !.requests = @ + 1, !.presented = refresh_token,
                                    !.salts = @ + 1,
                                    !.last = Response("refresh", 500, NoToken)]
          ELSE LET stored_token == CHOOSE i \in stored : TRUE
                   new_refresh_token == CreateRefreshToken(email, auth.now)
               IN auth' = [auth EXCEPT
                    !.requests = @ + 1,
                    !.presented = refresh_token,
                    !.salts = @ + 2,
                    !.refresh_tokens =
                        Append([@ EXCEPT ![stored_token].revoked = TRUE],
                               RefreshToken(email,
                                            GenerateTokenHash(new_refresh_token, GenSalt(2)))),
                    !.cookie = new_refresh_token,
                    !.access = CreateAccessToken(email, auth.now),
                    !.last = Response("refresh", 200, CreateAccessToken(email, auth.now))]
    /\ JobQueueUnchanged

\* token.revoked = True for the unrevoked rows of the user
RevokeAll(rows, user_id) ==
    [i \in 1..Len(rows) |->
        IF rows[i].user_id = user_id /\ ~rows[i].revoked
        THEN [rows[i] EXCEPT !.revoked = TRUE]
        ELSE rows[i]]

\* POST /auth/logout with the bearer token the client holds; current_user is
\* the user the token was issued to.  The response deletes the cookie.
Logout ==
    /\ auth.requests < MaxRequests
    /\ auth.access # NoToken
    /\ LET current_user == auth.access.sub IN
       auth' = [auth EXCEPT
            !.requests = @ + 1,
            !.presented = NoToken,
            !.refresh_tokens = RevokeAll(@, current_user),
            !.logged_out = @ \cup {current_user},
            !.cookie = NoToken,
            !.last = Response("logout", 200, NoToken)]
    /\ JobQueueUnchanged

\* A second passes
Tick ==
    /\ auth.now < MaxTime
    /\ auth' = [auth EXCEPT !.now = @ + 1]
    /\ JobQueueUnchanged

NextAuth ==
    \/ \E email \in Emails \cup {3}, password \in Passwords : Login(email, password)
    \/ \E refresh_token \in PresentableTokens : Refresh(refresh_token)
    \/ Logout
    \/ Tick

\* The store is new, or it holds a legacy row
InitAuth ==
    /\ jobs = << >>
    /\ models = << >>
    /\ datasets = InitDatasets
    /\ creates = [c \in CreateCalls |-> IdleCreate]
    /\ cancels = [k \in CancelCalls |-> IdleCancel]
    /\ poll = IdlePoll
    /\ remote_submits = 0
    /\ remote_cancels = {}
    /\ clock = 1
    /\ rec = NoRec
    /\ auth \in {InitialAuth, LegacyAuth}
    /\ tts = InitialTts

SpecAuth == InitAuth /\ [][NextAuth]_vars

(***************************************************************************)
(* Dataset routes (app/api/routes/tts.py): process_dataset with its        *)
(* background task, and delete_dataset.  Requests are served one at a      *)
(* time; the background task runs between them, one step per commit.       *)
(***************************************************************************)
MaxDatasetRequests == 3

DatasetRequestUnchanged ==
    UNCHANGED <<models, creates, cancels, poll, remote_submits, remote_cancels, clock,
                rec, auth>>

TtsResponse(op, user_id, dataset_id, status_code) ==
    [op |-> op, user_id |-> user_id, dataset_id |-> dataset_id, status_code |-> status_code]

\* select(TTSDataset).where(id == dataset_id, user_id == current_user.id)
OwnDataset(user_id, dataset_id) ==
    /\ dataset_id \in DOMAIN datasets
    /\ datasets[dataset_id].user_id = user_id

\* dataset.status in [PENDING, FAILED]
CanProcessWhileProcessing(dataset_status) == dataset_status \in {DS_PENDING, DS_FAILED, DS_PROCESSING}

CanProcess(dataset_status) == dataset_status \in {DS_PENDING, DS_FAILED}

\* POST /tts/datasets/{dataset_id}/process
ProcessDataset(user_id, dataset_id) ==
    /\ tts.requests < MaxDatasetRequests
    /\ IF ~OwnDataset(user_id, dataset_id)
       THEN /\ tts' = [tts EXCEPT !.requests = @ + 1,
                                  !.last = TtsResponse("process", user_id, dataset_id, 404)]
            /\ UNCHANGED datasets
       ELSE IF ~CanProcess(datasets[dataset_id].status)
       THEN /\ tts' = [tts EXCEPT !.requests = @ + 1,
                                  !.last = TtsResponse("process", user_id, dataset_id, 400)]
            /\ UNCHANGED datasets
       ELSE /\ tts' = [tts EXCEPT
                        !.requests = @ + 1,
                        !.tasks = Append(@, [dataset_id |-> dataset_id, pc |-> "added"]),
                        !.last = TtsResponse("process", user_id, dataset_id, 200)]
            /\ datasets' = [datasets EXCEPT ![dataset_id].status = DS_PROCESSING,
                                            ![dataset_id].error_message = Null]
    /\ UNCHANGED jobs
    /\ DatasetRequestUnchanged

\* _process_dataset_task up to its first commit: the task returns when the
\* dataset is gone, and writes PROCESSING otherwise
ProcessTaskStart(i) ==
    /\ i \in 1..Len(tts.tasks)
    /\ tts.tasks[i].pc = "added"
    /\ LET dataset_id == tts.tasks[i].dataset_id IN
       IF dataset_id \notin DOMAIN datasets
       THEN /\ tts' = [tts EXCEPT !.tasks[i].pc = "done"]
            /\ UNCHANGED datasets
       ELSE /\ tts' = [tts EXCEPT !.tasks[i].pc = "processing"]
            /\ datasets' = [datasets EXCEPT ![dataset_id].status = DS_PROCESSING]
    /\ UNCHANGED jobs
    /\ DatasetRequestUnchanged

\* _process_dataset_task from process_dataset of the audio processor to its
\* last commit.  error: the result carries an error, or an exception was
\* raised.  The update of a row that was deleted meanwhile writes nothing.
ProcessTaskFinish(i, error) ==
    /\ i \in 1..Len(tts.tasks)
    /\ tts.tasks[i].pc = "processing"
    /\ LET dataset_id == tts.tasks[i].dataset_id IN
       IF dataset_id \notin DOMAIN datasets
       THEN UNCHANGED datasets
       ELSE IF error
       THEN datasets' = [datasets EXCEPT ![dataset_id].status = DS_FAILED,
                                         ![dataset_id].error_message = 1]
       ELSE datasets' = [datasets EXCEPT ![dataset_id].status = DS_READY,
                                         ![dataset_id].training_data_s3_key = 1]
    /\ tts' = [tts EXCEPT !.tasks[i].pc = "done"]
    /\ UNCHANGED jobs
    /\ DatasetRequestUnchanged

\* TTSTrainingJob.status.in_([QUEUED, TRAINING])
DeleteBlockingStatuses == {QUEUED, TRAINING}

\* active_jobs of delete_dataset
ActiveJobsOf(dataset_id) ==
    {j \in 1..Len(jobs) :
        jobs[j].dataset_id = dataset_id /\ jobs[j].status \in DeleteBlockingStatuses}

\* tts_training_jobs.dataset_id is declared ondelete="CASCADE"
CascadeDelete(rows, dataset_id) ==
    LET Keep(row) == row.dataset_id # dataset_id IN SelectSeq(rows, Keep)

\* DELETE /tts/datasets/{dataset_id}
DeleteDataset(user_id, dataset_id) ==
    /\ tts.requests < MaxDatasetRequests
    /\ IF ~OwnDataset(user_id, dataset_id)
       THEN /\ tts' = [tts EXCEPT !.requests = @ + 1,
                                  !.last = TtsResponse("delete", user_id, dataset_id, 404)]
            /\ UNCHANGED <<datasets, jobs>>
       ELSE IF ActiveJobsOf(dataset_id) # {}
       THEN /\ tts' = [tts EXCEPT !.requests = @ + 1,
                                  !.last = TtsResponse("delete", user_id, dataset_id, 400)]
            /\ UNCHANGED <<datasets, jobs>>
       ELSE /\ tts' = [tts EXCEPT !.requests = @ + 1,
                                  !.last = TtsResponse("delete", user_id, dataset_id, 204)]
            /\ datasets' = [d \in DOMAIN datasets \ {dataset_id} |-> datasets[d]]
            /\ jobs' = CascadeDelete(jobs, dataset_id)
    /\ DatasetRequestUnchanged

NextDatasets ==
    \/ \E user_id \in Users, dataset_id \in RequestDatasetIds :
            ProcessDataset(user_id, dataset_id)
    \/ \E i \in 1..MaxDatasetRequests : ProcessTaskStart(i)
    \/ \E i \in 1..MaxDatasetRequests, error \in BOOLEAN : ProcessTaskFinish(i, error)
    \/ \E user_id \in Users, dataset_id \in RequestDatasetIds :
            DeleteDataset(user_id, dataset_id)

\* The job table when the dataset requests begin: no job, or one job of
\* user 1 on dataset 1 at a point of its life (inserted, submitted, training,
\* completed)
DatasetJobs ==
    {<< >>,
     <<NewJob(1, 1, 3, 1)>>,
     <<[NewJob(1, 1, 3, 1) EXCEPT !.status = PREPARING, !.runpod_job_id = 1]>>,
     <<[NewJob(1, 1, 3, Null) EXCEPT !.status = TRAINING, !.runpod_job_id = 1,
                                     !.started_at = 1]>>,
     <<[NewJob(1, 1, 3, Null) EXCEPT !.status = COMPLETED, !.runpod_job_id = 1,
                                     !.started_at = 1, !.completed_at = 2]>>}

InitDatasetRequests ==
    /\ jobs \in DatasetJobs
    /\ models = << >>
    /\ datasets = InitDatasets
    /\ creates = [c \in CreateCalls |-> IdleCreate]
    /\ cancels = [k \in CancelCalls |-> IdleCancel]
    /\ poll = IdlePoll
    /\ remote_submits = 0
    /\ remote_cancels = {}
    /\ clock = 3
    /\ rec = NoRec
    /\ auth = InitialAuth
    /\ tts = InitialTts

SpecDatasets == InitDatasetRequests /\ [][NextDatasets]_vars

\* ------------------------------------------------------------------------
\* Properties

Terminal(row) == row.status \in TerminalStatuses

ModelsOfJob(j) == {m \in 1..Len(models) : models[m].training_job_id = j}

\* C1: over every interleaving of create calls, cancel calls and poll ticks,
\* at most one TTSModel row carries a given job's id as training_job_id, and
\* a job's model_id, once set, is never assigned again.
AtMostOneModelPerJob == \A j \in JobIds : Cardinality(ModelsOfJob(j)) <= 1

ModelIdAssignedOnce ==
    \A j \in JobIds : jobs[j].model_id # Null => jobs'[j].model_id = jobs[j].model_id

C1_OneModelPerJob == [](AtMostOneModelPerJob) /\ [][ModelIdAssignedOnce]_vars

\* Two jobs completed, each with its own model, and a later tick has begun
C1_Witness ==
    /\ Len(models) = 2
    /\ \A j \in JobIds : jobs[j].model_id \in ModelsOfJob(j)
    /\ poll.pc = "jobs"

\* C2: queue_position is non-null if and only if the job's status is QUEUED.
C2_PositionIffQueued ==
    \A j \in JobIds : (jobs[j].queue_position # Null) <=> (jobs[j].status = QUEUED)

\* C3: once a job's status is terminal, no step of any operation changes any
\* field of the job.
C3_TerminalImmutable ==
    [][\A j \in JobIds : Terminal(jobs[j]) => jobs'[j] = jobs[j]]_vars

\* C4: a job's model_id is non-null only if its status is COMPLETED.
C4_ModelOnlyIfCompleted ==
    \A j \in JobIds : jobs[j].model_id # Null => jobs[j].status = COMPLETED

\* C5: a job in TRAINING or COMPLETED has its runpod_job_id set; a job whose
\* runpod_job_id is null is never in either status.
C5_HandleBeforeTraining ==
    \A j \in JobIds : jobs[j].status \in {TRAINING, COMPLETED} => jobs[j].runpod_job_id # Null

\* One job failed at submission and has no handle while the poll loop has
\* moved another job to TRAINING or COMPLETED
C5_Witness ==
    /\ \E j \in JobIds : jobs[j].runpod_job_id = Null /\ jobs[j].status = FAILED
    /\ \E j \in JobIds : jobs[j].status \in {TRAINING, COMPLETED}
    /\ poll.pc \in {"jobs", "positions"}

\* C6: reconciling a job a second time with the same terminal remote result
\* leaves the job as the first application left it and adds no TTSModel.
TerminalRemote == {RP_COMPLETED, RP_FAILED, RP_TIMED_OUT, RP_CANCELLED}

C6_ReconcileIdempotent ==
    (rec.n = 2 /\ rec.r.status \in TerminalRemote)
        => (jobs = rec.first.jobs /\ models = rec.first.models)

\* The QUEUED jobs hold the positions 1..N in creation order
QueuedContiguous(rows) ==
    LET ids == SelectSeq([i \in 1..Len(rows) |-> i], LAMBDA i : rows[i].status = QUEUED)
    IN \A n \in 1..Len(ids) : rows[ids[n]].queue_position = n

QueuedIds(rows) == {j \in 1..Len(rows) : rows[j].status = QUEUED}

C8_TickRenumbers ==
    [][(/\ PollCommitPositions
        /\ QueuedIds(jobs) = {poll.queued[n].id : n \in 1..Len(poll.queued)})
            => QueuedContiguous(jobs')]_vars

\* A tick has ended after the first job, QUEUED, was cancelled: the second
\* job, created at position 2 and still QUEUED, now holds position 1
C8_Witness ==
    /\ Len(jobs) = 2
    /\ jobs[1].status = CANCELLED
    /\ jobs[2].status = QUEUED
    /\ \E c \in CreateCalls : creates[c].job = 2 /\ creates[c].queue_position = 2
    /\ jobs[2].queue_position = 1
    /\ poll.pc = "load"

\* C9: a cancel call for a job in a terminal status ends with "Cannot cancel
\* job", one for a job that does not exist or belongs to another user ends
\* with "Job not found"; either way the call sends no cancel request to the
\* provider, changes no job and never reaches its commit.
C9_CancelRejected ==
    [][\A k \in CancelCalls :
        (cancels[k].pc = "idle" /\ cancels'[k].pc # "idle") =>
            LET u == cancels'[k].user_id
                j == cancels'[k].job_id
                found == j \in JobIds /\ jobs[j].user_id = u
            IN /\ ~found =>
                    /\ cancels'[k].pc = "done"
                    /\ cancels'[k].result = R_JOB_NOT_FOUND
                    /\ jobs' = jobs
                    /\ remote_cancels' = remote_cancels
               /\ (found /\ Terminal(jobs[j])) =>
                    /\ cancels'[k].pc = "done"
                    /\ cancels'[k].result = R_CANNOT_CANCEL
                    /\ jobs' = jobs
                    /\ remote_cancels' = remote_cancels]_vars

\* A cancel call for a COMPLETED job that has a remote handle was rejected
C9_Witness ==
    \E k \in CancelCalls :
        /\ cancels[k].result = R_CANNOT_CANCEL
        /\ jobs[cancels[k].job_id].status = COMPLETED
        /\ Truthy(jobs[cancels[k].job_id].runpod_job_id)
        /\ remote_cancels = {}

\* C10: when a cancel call succeeds, the job has status CANCELLED,
\* completed_at set and queue_position null.
C10_CancelEffect ==
    [][\A k \in CancelCalls :
        (cancels[k].pc = "commit" /\ cancels'[k].pc = "done") =>
            LET j == cancels[k].job_id
            IN /\ cancels'[k].result = R_OK
               /\ jobs'[j].status = CANCELLED
               /\ jobs'[j].completed_at # Null
               /\ jobs'[j].queue_position = Null]_vars

\* The preconditions of create_training_job, read from the store
PreconditionsHold(user_id, dataset_id) ==
    /\ dataset_id \in DOMAIN datasets
    /\ datasets[dataset_id].user_id = user_id
    /\ datasets[dataset_id].status = DS_READY
    /\ datasets[dataset_id].training_data_s3_key \notin {Null, 0}

DatasetErrorTexts == {R_DATASET_NOT_FOUND, R_DATASET_NOT_READY, R_DATASET_NO_DATA}

\* C11: a create call whose dataset does not exist, belongs to another user,
\* is not READY or has no training data ends at once with one of the dataset
\* errors; it adds no job row and sends no submission, and every job row of
\* the store comes from a call whose preconditions held.
C11_CreateRejected ==
    /\ [][\A c \in CreateCalls :
            (/\ creates[c].pc = "idle"
             /\ creates'[c].pc # "idle"
             /\ ~PreconditionsHold(creates'[c].user_id, creates'[c].dataset_id))
                => /\ creates'[c].pc = "done"
                   /\ creates'[c].result \in DatasetErrorTexts
                   /\ creates'[c].job = Null
                   /\ jobs' = jobs
                   /\ remote_submits' = remote_submits]_vars
    /\ [](\A c \in CreateCalls :
            creates[c].result \in DatasetErrorTexts
                => creates[c].pc = "done" /\ creates[c].job = Null)
    /\ [](\A j \in JobIds : PreconditionsHold(jobs[j].user_id, jobs[j].dataset_id))

\* One call named a dataset that does not exist, the other a READY dataset
\* without training data; both were rejected and the store has no job
C11_Witness ==
    /\ \E c \in CreateCalls :
            creates[c].dataset_id = 4 /\ creates[c].result = R_DATASET_NOT_FOUND
    /\ \E c \in CreateCalls : creates[c].result = R_DATASET_NO_DATA
    /\ jobs = << >>
    /\ remote_submits = 0

\* C12: whenever the client reports the submission as FAILED, whatever the
\* error text, the call ends with "Failed to submit job to RunPod" and leaves
\* the job FAILED with error_message set and runpod_job_id null.
C12_FailedSubmission ==
    [][\A c \in CreateCalls :
        (/\ creates[c].pc = "submit"
         /\ creates'[c].pc = "done"
         /\ creates'[c].runpod_status = RP_FAILED)
            => LET j == creates[c].job
               IN /\ creates'[c].result = R_SUBMIT_FAILED
                  /\ jobs'[j].status = FAILED
                  /\ jobs'[j].error_message \notin {Null, 0}
                  /\ jobs'[j].runpod_job_id = Null]_vars

InsertedCalls == {c \in CreateCalls : creates[c].pc \in {"submit", "done"}
                                        /\ creates[c].result \notin DatasetErrorTexts}

\* C14: every create call that passed the dataset checks has added exactly
\* one job row, and a call sends one submission, when it inserts its row, and
\* never a second one.
C14_OneRowOneSubmission ==
    /\ [](/\ Len(jobs) = Cardinality(InsertedCalls)
          /\ remote_submits = Cardinality(InsertedCalls)
          /\ \A c \in InsertedCalls : creates[c].job \in JobIds
          /\ \A c, b \in InsertedCalls : c # b => creates[c].job # creates[b].job)
    /\ [][remote_submits' # remote_submits
            => /\ remote_submits' = remote_submits + 1
               /\ \E c \in CreateCalls :
                    creates[c].pc = "insert" /\ creates'[c].pc = "submit"]_vars

\* Both calls are over, one with a failed submission: two rows, two requests
C14_Witness ==
    /\ \A c \in CreateCalls : creates[c].pc = "done" /\ creates[c].job # Null
    /\ \E c \in CreateCalls : creates[c].result = R_SUBMIT_FAILED
    /\ Len(jobs) = 2
    /\ remote_submits = 2

\* C15: reconciling a non-terminal job with a remote COMPLETED result sets
\* the job COMPLETED; when the output carries model_s3_key, one TTSModel is
\* added with the job's user, training_job_id the job, training_epochs the
\* job's epochs and final_loss the output's final_loss, and the job's
\* model_id is that model's id; without model_s3_key no model is added and
\* model_id stays null.
C15_CompletedArtifact ==
    (rec.n = 1 /\ rec.r.status = RP_COMPLETED) =>
        /\ jobs[1].status = COMPLETED
        /\ IF Truthy(Get(rec.r.output, "model_s3_key"))
           THEN /\ Len(models) = 1
                /\ models[1].user_id = jobs[1].user_id
                /\ models[1].training_job_id = 1
                /\ models[1].training_epochs = jobs[1].epochs
                /\ HasKey(rec.r.output, "final_loss")
                        => models[1].final_loss = rec.r.output.final_loss
                /\ jobs[1].model_id = 1
           ELSE /\ models = << >>
                /\ jobs[1].model_id = Null

ProgressFields == {"current_epoch", "current_step", "total_steps", "loss"}

\* C16: reconciling with a remote IN_PROGRESS result writes, of the progress
\* fields, exactly those whose key is in the output; a field whose key is
\* absent, and every field when there is no output, keeps the value it had.
C16_ProgressFrame ==
    [][(rec'.n = rec.n + 1 /\ rec.r.status = RP_IN_PROGRESS) =>
        \A f \in ProgressFields :
            jobs'[1][f] = IF HasKey(rec.r.output, f) THEN rec.r.output[f] ELSE jobs[1][f]]_vars

\* A TRAINING job at step 5 was reconciled with an output that has a loss
\* but no current_step: the step is still 5 and the loss is the reported one
C16_Witness ==
    /\ rec.n >= 1
    /\ rec.r.status = RP_IN_PROGRESS
    /\ ~HasKey(rec.r.output, "current_step")
    /\ HasKey(rec.r.output, "loss")
    /\ jobs[1].current_step = 5
    /\ jobs[1].loss = rec.r.output.loss

\* C17: a poll iteration whose status query fails (HTTP error status or
\* exception in get_job_status) leaves every job as it was, and the job is
\* still selected by the next tick.
C17_QueryFailureKeepsJob ==
    [][(/\ poll.pc = "jobs"
        /\ poll.todo # << >>
        /\ \E r \in QueryFailedResults(Head(poll.todo).obj.runpod_job_id) : PollJob(r))
            => /\ jobs' = jobs
               /\ PollActive(jobs'[Head(poll.todo).id])]_vars

\* C18: the polling task is created when the process starts, so in every
\* state of the running process a polling task exists.
C18_LoopStartedAtInit == poll.pc # "none"

\* C19: every job in status FAILED has a non-empty error_message, whether it
\* failed at submission or was reconciled from a remote FAILED or TIMED_OUT.
C19_FailedHasMessage ==
    \A j \in JobIds : jobs[j].status = FAILED => jobs[j].error_message \notin {Null, 0}

\* One job failed at submission and has no handle; another was reconciled
\* from a remote failure that carried no error text and holds "Job failed"
C19_Witness ==
    /\ \E j \in JobIds :
            /\ jobs[j].status = FAILED
            /\ jobs[j].runpod_job_id = Null
            /\ Truthy(jobs[j].error_message)
    /\ \E j \in JobIds :
            /\ jobs[j].status = FAILED
            /\ Truthy(jobs[j].runpod_job_id)
            /\ jobs[j].error_message = JOB_FAILED

\* The rows that hold a hash of the token, for the token's user, unrevoked
RowsOfToken(rows, token) ==
    {i \in 1..Len(rows) :
        /\ rows[i].user_id = token.sub
        /\ ~rows[i].revoked
        /\ rows[i].token_hash.text = token}

\* C20: a refresh request that carries the cookie of a successful login,
\* whose token is stored unrevoked, is answered 200 with a new access token;
\* the presented token's row is then revoked and a new unrevoked row of the
\* user is stored, so the user has at least two rows.
C20_RefreshRotates ==
    [][(/\ auth'.requests = auth.requests + 1
        /\ auth'.last.op = "refresh"
        /\ auth.cookie # NoToken
        /\ auth'.presented = auth.cookie
        /\ RowsOfToken(auth.refresh_tokens, auth.cookie) # {})
            => /\ auth'.last.status_code = 200
               /\ auth'.last.access_token.sub = auth.cookie.sub
               /\ Len(auth'.refresh_tokens) = Len(auth.refresh_tokens) + 1
               /\ \E i \in RowsOfToken(auth.refresh_tokens, auth.cookie) :
                    auth'.refresh_tokens[i].revoked
               /\ LET new == auth'.refresh_tokens[Len(auth'.refresh_tokens)]
                  IN new.user_id = auth.cookie.sub /\ ~new.revoked
               /\ Cardinality({i \in 1..Len(auth'.refresh_tokens) :
                        auth'.refresh_tokens[i].user_id = auth.cookie.sub}) >= 2]_vars

\* C23: at most one polling task exists at any time; start_polling creates
\* a task only when none exists that has not ended, whatever start_polling
\* and stop_polling calls came before.
C23_SingleLoop ==
    /\ [](poll.tasks <= 1)
    /\ [][poll'.tasks > poll.tasks => (poll.tasks = 0 /\ poll'.tasks = 1)]_vars

\* The one task is in the middle of a tick over two jobs
C23_Witness ==
    /\ poll.tasks = 1
    /\ poll.pc = "jobs"
    /\ Len(poll.todo) = 2

\* C24: once stop_polling has cancelled the running task, the task ends and
\* no poll tick begins any more, unless start_polling creates a new task
\* after the old one has ended.
C24_LoopStops ==
    /\ (poll.pc = "cancelling") ~> (poll.pc = "done")
    /\ [][poll.pc = "cancelling" => poll'.pc \in {"cancelling", "done"}]_vars
    /\ [][poll.pc = "done" => (poll'.pc = "done" \/ poll'.tasks = poll.tasks + 1)]_vars

\* The task has ended while a non-terminal job with a remote handle exists
C24_Witness ==
    /\ poll.pc = "done"
    /\ poll.tasks = 0
    /\ \E j \in JobIds : PollActive(jobs[j])

C26_RemoteFailureIgnored ==
    [][\A k \in CancelCalls :
        (cancels[k].pc = "commit" /\ cancels'[k].pc = "done" /\ cancels[k].remote = "sent")
            => /\ cancels'[k].result = R_OK
               /\ jobs'[cancels[k].job_id].status = CANCELLED
               /\ cancels'[k].remote \in {"ok", "failed"}]_vars

\* A cancel call whose request to the provider failed has ended with success
\* and the job is CANCELLED
C26_Witness ==
    \E k \in CancelCalls :
        /\ cancels[k].remote = "failed"
        /\ cancels[k].result = R_OK
        /\ jobs[cancels[k].job_id].status = CANCELLED

\* C27: every job in a terminal status has completed_at set.
C27_TerminalHasCompletedAt ==
    \A j \in JobIds : Terminal(jobs[j]) => jobs[j].completed_at # Null

\* C29: no two jobs in status QUEUED or PREPARING hold the same non-null
\* queue_position.
C29_DistinctPositions ==
    \A i, j \in JobIds :
        (/\ i # j
         /\ jobs[i].status \in {QUEUED, PREPARING}
         /\ jobs[j].status \in {QUEUED, PREPARING}
         /\ jobs[i].queue_position # Null)
            => jobs[i].queue_position # jobs[j].queue_position

\* C28: reconciling a PREPARING or TRAINING job with a remote IN_PROGRESS
\* result leaves it TRAINING; when the job was not TRAINING before,
\* started_at becomes the time of the call and queue_position null; when it
\* was TRAINING already, started_at and queue_position keep their values.
C28_TrainingEntry ==
    [][(rec'.n = rec.n + 1 /\ rec.r.status = RP_IN_PROGRESS) =>
        /\ jobs'[1].status = TRAINING
        /\ IF jobs[1].status # TRAINING
           THEN /\ jobs'[1].started_at = clock
                /\ jobs'[1].queue_position = Null
           ELSE /\ jobs'[1].started_at = jobs[1].started_at
                /\ jobs'[1].queue_position = jobs[1].queue_position]_vars

\* A PREPARING job was reconciled twice with IN_PROGRESS: it is TRAINING and
\* started_at is the time of the first reconciliation
C28_Witness ==
    /\ rec.n = 2
    /\ rec.r.status = RP_IN_PROGRESS
    /\ jobs[1].status = TRAINING
    /\ rec.first.jobs[1].started_at = 2
    /\ jobs[1].started_at = 2
    /\ jobs[1].queue_position = Null

\* C21: while a user has logged out and not logged in since, every refresh
\* token stored for the user is revoked, and every refresh request, without
\* a cookie or with a token of that user, is answered 401.
C21_LogoutRevokes ==
    /\ [](\A u \in auth.logged_out :
            \A i \in 1..Len(auth.refresh_tokens) :
                auth.refresh_tokens[i].user_id = u => auth.refresh_tokens[i].revoked)
    /\ [][(/\ auth'.requests = auth.requests + 1
           /\ auth'.last.op = "refresh"
           /\ (auth'.presented = NoToken \/ auth'.presented.sub \in auth.logged_out))
            => (auth'.last.status_code = 401 /\ auth'.refresh_tokens = auth.refresh_tokens)]_vars

\* After a refresh that succeeded and a logout, the old cookie was sent again
\* and the request was answered 401
C21_Witness ==
    /\ auth.last.op = "refresh"
    /\ auth.last.status_code = 401
    /\ auth.presented = LegacyToken
    /\ 1 \in auth.logged_out
    /\ Len(auth.refresh_tokens) = 2
    /\ \A i \in 1..Len(auth.refresh_tokens) : auth.refresh_tokens[i].revoked

\* The tasks of a dataset that have not committed their result
UnfinishedTasks(dataset_id) ==
    {i \in 1..Len(tts.tasks) :
        tts.tasks[i].dataset_id = dataset_id /\ tts.tasks[i].pc # "done"}

\* C22: a process request of the owner is accepted exactly when the dataset
\* is PENDING or FAILED; on a PROCESSING or READY dataset it is answered 400,
\* adds no background task and leaves the dataset as it was; no dataset has
\* two unfinished processing tasks.
C22_ProcessOnlyPendingOrFailed ==
    /\ [](\A d \in RequestDatasetIds : Cardinality(UnfinishedTasks(d)) <= 1)
    /\ [][(/\ tts'.requests = tts.requests + 1
           /\ tts'.last.op = "process"
           /\ OwnDataset(tts'.last.user_id, tts'.last.dataset_id))
            => IF datasets[tts'.last.dataset_id].status \in {DS_PROCESSING, DS_READY}
               THEN /\ tts'.last.status_code = 400
                    /\ tts'.tasks = tts.tasks
                    /\ datasets' = datasets
               ELSE /\ tts'.last.status_code = 200
                    /\ Len(tts'.tasks) = Len(tts.tasks) + 1
                    /\ datasets'[tts'.last.dataset_id].status = DS_PROCESSING]_vars

\* A second process request was answered 400 while the task of the first was
\* still running
C22_Witness ==
    /\ tts.last.op = "process"
    /\ tts.last.status_code = 400
    /\ tts.last.dataset_id \in DOMAIN datasets
    /\ datasets[tts.last.dataset_id].status = DS_PROCESSING
    /\ UnfinishedTasks(tts.last.dataset_id) # {}

\* C30: a delete request of the owner for a dataset that a job in QUEUED,
\* PREPARING or TRAINING refers to is answered 400 and leaves the dataset and
\* the jobs in place.
C30_ActiveDatasetKept ==
    [][(/\ tts'.requests = tts.requests + 1
        /\ tts'.last.op = "delete"
        /\ OwnDataset(tts'.last.user_id, tts'.last.dataset_id)
        /\ \E j \in 1..Len(jobs) :
              /\ jobs[j].dataset_id = tts'.last.dataset_id
              /\ jobs[j].status \in {QUEUED, PREPARING, TRAINING})
        => (/\ tts'.last.status_code = 400
            /\ datasets' = datasets
            /\ jobs' = jobs)]_vars

====
